---- MODULE Spec2Model ----
(***************************************************************************)
(* Model of the loan engine of annuitystreamlitapp.py:                     *)
(*   calculate_monthly_payment, calculate_rental_tax and the month-by-month *)
(*   loop of calculate_amortization_schedule.                               *)
(*                                                                         *)
(* Python floats are modelled as fixed-point numbers: an amount x is the   *)
(* integer round(x * MONEY_SCALE), a rate or growth factor f is the integer *)
(* round(f * RATE_SCALE), and every product and quotient is rounded to the  *)
(* nearest representable value (as IEEE arithmetic rounds each operation).  *)
(* Sums, differences, comparisons and max() are exact, as they are here.    *)
(***************************************************************************)
EXTENDS Integers, Sequences, FiniteSets, TLC

\* ------------------------------------------------------------ arithmetic

\* Amounts carry four decimals; rates and growth factors carry 1/120,000,000
\* (so that annual_rate / 12 / 100 is exact for a whole percentage).
MONEY_SCALE == 10^4
RATE_SCALE == 12 * 10^7
MaxInt == (2^30 - 1) * 2 + 1

Max(a, b) == IF a >= b THEN a ELSE b
Min(a, b) == IF a <= b THEN a ELSE b

\* One step of the long multiplication below: from h = <<q, r>> for a * b,
\* <<q', r'>> for a * (b * Radix(c) + digit).
Radix(c) == 2^30 \div c
MulDivStep(h, a, digit, c) ==
    LET r0 == Radix(c) * h[2] + (a % c) * digit
    IN  <<Radix(c) * h[1] + (a \div c) * digit + (r0 \div c), r0 % c>>

\* <<q, r>> with a * b = q * c + r and 0 <= r < c, for a, b >= 0 and
\* 0 < c < 2^29, computed without leaving 32 bits: long multiplication over
\* the digits of b in the largest radix that keeps every step below 2^31.
RECURSIVE MulDivQR(_, _, _)
MulDivQR(a, b, c) ==
    IF b = 0 THEN <<0, 0>>
    ELSE IF a <= MaxInt \div b THEN <<(a * b) \div c, (a * b) % c>>
    ELSE MulDivStep(MulDivQR(a, b \div Radix(c), c), a, b % Radix(c), c)

\* a * b / c rounded to the nearest integer (halves up), for a, b >= 0 < c.
MulDivAbs(a, b, c) ==
    LET qr == MulDivQR(a, b, c)
    IN  IF 2 * qr[2] >= c THEN qr[1] + 1 ELSE qr[1]

\* a * b / c rounded to the nearest integer, for c # 0: the sign is that of
\* the exact quotient, the magnitude is rounded as above.
Abs(a) == IF a < 0 THEN -a ELSE a
SignOf(a) == IF a < 0 THEN -1 ELSE 1
MulDiv(a, b, c) ==
    IF a >= 0 /\ b >= 0 /\ c > 0
    THEN MulDivAbs(a, b, c)
    ELSE SignOf(a) * SignOf(b) * SignOf(c) * MulDivAbs(Abs(a), Abs(b), Abs(c))

\* x * f for an amount (or factor) x and a factor f.
FMul(x, f) == MulDiv(x, f, RATE_SCALE)
\* x / k and x * k / d for an amount x and plain numbers k, d.
Div(x, k) == MulDiv(x, 1, k)

\* (1 + monthly_rate) ** n, for a whole number n of months.
Square(f) == FMul(f, f)
RECURSIVE Pow(_, _)
Pow(f, n) ==
    IF n < 0 THEN MulDiv(RATE_SCALE, RATE_SCALE, Pow(f, -n))
    ELSE IF n = 0 THEN RATE_SCALE
    ELSE IF n % 2 = 0 THEN Square(Pow(f, n \div 2))
    ELSE FMul(Pow(f, n - 1), f)

\* ------------------------------------------------- calculate_monthly_payment

\* monthly_rate = annual_rate / 12 / 100
MonthlyRate(annual_rate) == Div(MulDiv(annual_rate, RATE_SCALE, 12), 100)

\* Mutant: the growth factor is left out of the numerator.
calculate_monthly_payment_NoGrowth(principal_, annual_rate_, months) ==
    LET monthly_rate == MonthlyRate(annual_rate_)
        growth == Pow(RATE_SCALE + monthly_rate, months)
    IN  MulDiv(principal_, monthly_rate, growth - RATE_SCALE)

\* The term is carried in months: `months` is years * 12, which is what the
\* function computes first (the loop passes remaining_months / 12, and
\* (m / 12) * 12 = m in double precision for every m the loop can pass).
calculate_monthly_payment(principal_, annual_rate_, months) ==
    LET monthly_rate == MonthlyRate(annual_rate_)
        num_payments == months
        growth == Pow(RATE_SCALE + monthly_rate, num_payments)
    IN  MulDiv(principal_, FMul(monthly_rate, growth), growth - RATE_SCALE)

\* ----------------------------------------------------- calculate_rental_tax

INCOME_TAX_RATE_PCT == 22

\* Mutant: the threshold test is >= 50 instead of > 50.
calculate_rental_tax_FromHalf(annual_rental_income, rental_percentage_, interest_paid, property_tax_, other_expenses_, depreciation) ==
    IF rental_percentage_ >= 50
    THEN LET total_deductions == MulDiv(interest_paid, rental_percentage_, 100)
                                 + MulDiv(property_tax_, rental_percentage_, 100)
                                 + other_expenses_ + depreciation
             taxable_income == Max(0, annual_rental_income - total_deductions)
             income_tax == MulDiv(taxable_income, INCOME_TAX_RATE_PCT, 100)
         IN  [taxable_income |-> taxable_income,
              income_tax |-> income_tax,
              effective_tax_rate |->
                  IF annual_rental_income > 0
                  THEN MulDiv(income_tax, 100 * MONEY_SCALE, annual_rental_income)
                  ELSE 0,
              deductions |-> total_deductions]
    ELSE [taxable_income |-> 0, income_tax |-> 0,
          effective_tax_rate |-> 0, deductions |-> 0]

calculate_rental_tax(annual_rental_income, rental_percentage_, interest_paid, property_tax_, other_expenses_, depreciation) ==
    IF rental_percentage_ > 50
    THEN LET deductible_interest == MulDiv(interest_paid, rental_percentage_, 100)
             deductible_property_tax == MulDiv(property_tax_, rental_percentage_, 100)
             total_deductions == deductible_interest + deductible_property_tax
                                 + other_expenses_ + depreciation
             taxable_income == Max(0, annual_rental_income - total_deductions)
             income_tax == MulDiv(taxable_income, INCOME_TAX_RATE_PCT, 100)
         IN  [taxable_income |-> taxable_income,
              income_tax |-> income_tax,
              effective_tax_rate |->
                  IF annual_rental_income > 0
                  THEN MulDiv(income_tax, 100 * MONEY_SCALE, annual_rental_income)
                  ELSE 0,
              deductions |-> total_deductions]
    ELSE [taxable_income |-> 0, income_tax |-> 0,
          effective_tax_rate |-> 0, deductions |-> 0]

\* ------------------------------------------------------------------ dates

Date(y, m, d) == [year |-> y, month |-> m, day |-> d]

\* Mutant: the day of the month is kept as it is.
NextDate_NoClamp(d) == Date(d.year + (d.month \div 12), (d.month % 12) + 1, d.day)

\* date(current_date.year + current_date.month // 12,
\*      current_date.month % 12 + 1, min(current_date.day, 28))
NextDate(d) == Date(d.year + (d.month \div 12), (d.month % 12) + 1, Min(d.day, 28))

\* Mutant: an entry is matched by year and month, whatever its day.
ExtraPaymentOn_SameMonth(map, d) ==
    IF \E e \in DOMAIN map : e.year = d.year /\ e.month = d.month
    THEN map[CHOOSE e \in DOMAIN map : e.year = d.year /\ e.month = d.month]
    ELSE 0

\* extra_payments.get(current_date, 0)
ExtraPaymentOn(map, d) == IF d \in DOMAIN map THEN map[d] ELSE 0

\* ----------------------------------------------------------------- inputs

MaxYears == 1

Amt(units) == units * MONEY_SCALE

Principals == {Amt(12000)}
AnnualRates == {6, 24}
Terms == 1..MaxYears
MonthlyFees == {Amt(45)}
StartDates == {Date(2025, 8, 15), Date(2025, 10, 31), Date(2026, 1, 10)}
RentalIncomes == {0, Amt(500), Amt(1200)}
MonthlyExtraIncomes == {0, Amt(100)}
EmptyMap == [d \in {} |-> 0]
ExtraPaymentMaps ==
    { EmptyMap,
      (Date(2025, 8, 15) :> Amt(3000)) @@ (Date(2026, 1, 10) :> Amt(3000)),
      (Date(2025, 10, 15) :> Amt(2000)) @@ (Date(2025, 11, 28) :> Amt(3000)),
      (Date(2025, 9, 15) :> Amt(20000)) @@ (Date(2025, 10, 31) :> Amt(20000)) }
\* rental_percentage, property_tax, other_expenses, property_value,
\* depreciation_percentage
TaxParameters ==
    { <<0, 0, 0, 0, 0>>,
      <<50, Amt(200), Amt(300), Amt(100000), 2>>,
      <<60, Amt(200), Amt(300), Amt(100000), 2>>,
      <<100, 0, 0, 0, 0>> }

\* ------------------------------------------ calculate_amortization_schedule

VARIABLES
    principal, annual_rate, years, monthly_fee, start_date, rental_income,
    monthly_extra_income, extra_payments, reduce_term, reinvest_excess,
    rental_percentage, property_tax, other_expenses, property_value,
    depreciation_percentage,
    initial_monthly_payment, annual_depreciation,
    schedule, remaining_balance, current_date, excess_for_next_month,
    reinvested_total, current_year, yearly_rental_income, yearly_interest_paid,
    yearly_tax_liability, payment_num, pc,
    \* a direct call of calculate_rental_tax: its arguments and what it returned
    rt_args, rt_result,
    \* a direct call of calculate_monthly_payment: its arguments and its outcome
    mp_args, mp_result,
    \* a call of process_extra_payments: its argument (the text, line by line),
    \* the position of its loop, its local map and its outcome
    extra_payments_input, line_num, parsed_payments, pe_result,
    \* the locals of a second call of calculate_amortization_schedule that is
    \* not running at the moment
    parked

inputs == <<principal, annual_rate, years, monthly_fee, start_date, rental_income, monthly_extra_income, extra_payments, reduce_term, reinvest_excess, rental_percentage, property_tax, other_expenses, property_value, depreciation_percentage>>

locals_but_pc == <<initial_monthly_payment, annual_depreciation, schedule, remaining_balance, current_date, excess_for_next_month, reinvested_total, current_year, yearly_rental_income, yearly_interest_paid, yearly_tax_liability, payment_num>>

locals == <<locals_but_pc, pc>>

payment_call == <<mp_args, mp_result>>

parse_call == <<extra_payments_input, line_num, parsed_payments, pe_result>>

vars == <<inputs, locals, rt_args, rt_result, payment_call, parse_call, parked>>

monthly_rate == MonthlyRate(annual_rate)
num_payments == years * 12

\* annual_depreciation, lines 99-104
AnnualDepreciation(pct, value, dep_pct) ==
    IF pct > 50 /\ value > 0 /\ dep_pct > 0
    THEN LET building_value == MulDiv(value, 7, 10)
         IN  MulDiv(building_value, dep_pct, 100)
    ELSE 0

NoCall == [called |-> FALSE]
\* The outcomes of a call: a value returned, an exception raised.
Return(v) == [returned |-> v]
Raise(e) == [raised |-> e]

\* The calls that are not made.
NoPaymentCall == mp_args = NoCall /\ mp_result = NoCall
NoParseCall ==
    /\ extra_payments_input = <<>> /\ line_num = 0
    /\ parsed_payments = EmptyMap /\ pe_result = NoCall
NoSecondCall == parked = NoCall

Init ==
    /\ rt_args = NoCall
    /\ rt_result = NoCall
    /\ NoPaymentCall /\ NoParseCall /\ NoSecondCall
    /\ principal \in Principals
    /\ annual_rate \in AnnualRates
    /\ years \in Terms
    /\ monthly_fee \in MonthlyFees
    /\ start_date \in StartDates
    /\ rental_income \in RentalIncomes
    /\ monthly_extra_income \in MonthlyExtraIncomes
    /\ extra_payments \in ExtraPaymentMaps
    /\ reduce_term \in BOOLEAN
    /\ reinvest_excess \in BOOLEAN
    /\ \E t \in TaxParameters :
          /\ rental_percentage = t[1]
          /\ property_tax = t[2]
          /\ other_expenses = t[3]
          /\ property_value = t[4]
          /\ depreciation_percentage = t[5]
    /\ initial_monthly_payment = calculate_monthly_payment(principal, annual_rate, years * 12)
    /\ annual_depreciation = AnnualDepreciation(rental_percentage, property_value, depreciation_percentage)
    /\ schedule = <<>>
    /\ remaining_balance = principal
    /\ current_date = start_date
    /\ excess_for_next_month = 0
    /\ reinvested_total = 0
    /\ current_year = start_date.year
    /\ yearly_rental_income = 0
    /\ yearly_interest_paid = 0
    /\ yearly_tax_liability = 0
    /\ payment_num = 0
    /\ pc = "loop"

\* Mutants of the payment rule: the payment is recomputed in both modes; it is
\* never recomputed; the remaining term is counted one month short.
MonthlyPayment_AlwaysRecomputed(reduce, balance, rate, n, num, initial) ==
    IF n - num + 1 > 0 /\ balance > 0
    THEN calculate_monthly_payment(balance, rate, n - num + 1)
    ELSE 0
MonthlyPayment_NeverRecomputed(reduce, balance, rate, n, num, initial) == initial
MonthlyPayment_OneMonthShort(reduce, balance, rate, n, num, initial) ==
    IF ~reduce
    THEN LET remaining_months == n - num
         IN  IF remaining_months > 0 /\ balance > 0
             THEN calculate_monthly_payment(balance, rate, remaining_months)
             ELSE 0
    ELSE initial

\* Lines 118-127: this period's payment.
MonthlyPayment(reduce, balance, rate, n, num, initial) ==
    IF ~reduce
    THEN LET remaining_months == n - num + 1
         IN  IF remaining_months > 0 /\ balance > 0
             THEN calculate_monthly_payment(balance, rate, remaining_months)
             ELSE 0
    ELSE initial

\* Mutant: a year's interest is charged each month.
InterestPayment_Yearly(balance, rate) == FMul(balance, 12 * rate)

\* Line 130
InterestPayment(balance, rate) == FMul(balance, rate)

\* Mutant: the cost is not floored at zero.
MonthlyCost_NoFloor(payment, fee, rental, extra_income) ==
    payment + fee - rental - extra_income

\* Line 161
MonthlyCost(payment, fee, rental, extra_income) ==
    Max(0, payment + fee - rental - extra_income)

\* Mutant: only December closes a year; a payoff does not.
YearEnd_DecemberOnly(d, balance, principal_payment) == d.month = 12

\* Line 164: the end of a year, or the loan has been paid off.
YearEnd(d, balance, principal_payment) ==
    d.month = 12 \/ balance - principal_payment <= 0

\* Mutant: the start year is not told apart.
MonthsInYear_CurrentMonth(d, start) == d.month

\* Line 168
MonthsInYear(d, start) ==
    IF d.year > start.year THEN d.month ELSE 13 - start.month

\* Lines 166-188: [monthly_tax, yearly_tax_liability] at a year end.
YearEndTax(pct, yearly_rental, yearly_interest, ptax, other, annual_dep, d, start) ==
    IF pct > 50
    THEN LET monthly_depreciation == Div(annual_dep, 12)
             months_in_year == MonthsInYear(d, start)
             yearly_depreciation == monthly_depreciation * months_in_year
             yearly_property_tax_portion == Div(ptax * months_in_year, 12)
             yearly_other_expenses_portion == Div(other * months_in_year, 12)
             tax_result == calculate_rental_tax(yearly_rental, pct, yearly_interest, yearly_property_tax_portion, yearly_other_expenses_portion, yearly_depreciation)
         IN  [yearly_tax_liability |-> tax_result.income_tax,
              monthly_tax |-> Div(tax_result.income_tax, months_in_year)]
    ELSE [yearly_tax_liability |-> 0, monthly_tax |-> 0]

\* Mutant: the estimate is made whatever the rented share.
MonthlyTaxEstimate_NoThreshold(pct, rental, interest, ptax, other, annual_dep) ==
    LET deductions == MulDiv(interest * 12, pct, 100) + MulDiv(Div(ptax, 12) * 12, pct, 100)
                      + Div(other, 12) * 12 + Div(annual_dep, 12) * 12
    IN  Div(MulDiv(Max(0, rental * 12 - deductions), INCOME_TAX_RATE_PCT, 100), 12)

\* Lines 196-215: the estimate of an ordinary month.
MonthlyTaxEstimate(pct, rental, interest, ptax, other, annual_dep) ==
    IF pct > 50
    THEN LET monthly_rental == rental
             monthly_interest == interest
             monthly_depreciation == Div(annual_dep, 12)
             monthly_property_tax == Div(ptax, 12)
             monthly_other_expenses == Div(other, 12)
         IN  Div(calculate_rental_tax(monthly_rental * 12, pct, monthly_interest * 12, monthly_property_tax * 12, monthly_other_expenses * 12, monthly_depreciation * 12).income_tax, 12)
    ELSE 0

\* Line 221
AfterTaxRentalProfit(rental, interest, pct, monthly_tax) ==
    Max(0, rental - MulDiv(interest, pct, 100)) - monthly_tax

\* Lines 224-231: the surplus kept for the next month, or "none" when the
\* carry is left as it is.
Reinvestable(reinvest, rental, interest) == reinvest /\ rental > interest
\* Mutant: the regular principal is not taken off the surplus.
ExcessForNextMonth_PrincipalNotDeducted(rental, interest, regular_principal) ==
    Max(0, rental - interest)
ExcessForNextMonth(rental, interest, regular_principal) ==
    LET potential_excess == rental - interest
    IN  Max(0, potential_excess - regular_principal)

\* Mutant: the principal applied is taken off the balance twice.
UpdateBalance_AppliedTwice(balance, principal_payment) == Max(0, balance - 2 * principal_payment)

\* Mutant: the balance is not floored at zero.
UpdateBalance_NoFloor(balance, principal_payment) == balance - principal_payment

\* Line 234
UpdateBalance(balance, principal_payment) == Max(0, balance - principal_payment)

\* Mutant: the loop is never left early.
Break_Never(balance) == FALSE

\* Line 256: the loop is left once the balance is paid off.
Break(balance) == balance <= 0

\* The record appended by lines 236-254.
Record(d, num, payment, principal_payment, regular, interest, extra, extra_income, excess, balance, fee, rental, cost, tax, profit) ==
    [Payment_Date |-> d,
     Payment_Num |-> num,
     Payment |-> payment,
     Principal |-> principal_payment,
     Regular_Principal |-> regular,
     Interest |-> interest,
     Extra_Payment |-> extra,
     Monthly_Extra_Income |-> extra_income,
     Excess_Reinvested |-> excess,
     Remaining_Balance |-> balance,
     Monthly_Fee |-> fee,
     Rental_Income |-> rental,
     Monthly_Cost |-> cost,
     Monthly_Tax |-> tax,
     Monthly_Cost_After_Tax |-> cost + tax,
     After_Tax_Rental_Profit |-> profit,
     Years |-> Div(Amt(num), 12)]

\* One iteration of the loop of lines 117-260. Each local of the loop body is
\* bound once, in the order the code assigns it (\E over a one-element set).
Step ==
    /\ pc = "loop"
    /\ \E num \in {payment_num + 1} :
       \E monthly_payment \in {MonthlyPayment(reduce_term, remaining_balance, annual_rate, num_payments, num, initial_monthly_payment)} :
       \E interest_payment \in {InterestPayment(remaining_balance, monthly_rate)} :
       \E regular_principal_payment \in {monthly_payment - interest_payment} :
       \E next_date \in {NextDate(current_date)} :
       \E reinvesting \in {reinvest_excess /\ excess_for_next_month > 0} :
       \E reinvested_this_month \in {IF reinvesting THEN excess_for_next_month ELSE 0} :
       \E extra_payment \in {ExtraPaymentOn(extra_payments, current_date) + reinvested_this_month} :
       \E carry \in {IF reinvesting THEN 0 ELSE excess_for_next_month} :
       \E principal_payment \in {regular_principal_payment + extra_payment + monthly_extra_income} :
       \E rental_sum \in {yearly_rental_income + rental_income} :
       \E interest_sum \in {yearly_interest_paid + interest_payment} :
       \E monthly_cost \in {MonthlyCost(monthly_payment, monthly_fee, rental_income, monthly_extra_income)} :
       \E year_end \in {YearEnd(current_date, remaining_balance, principal_payment)} :
       \E year_tax \in {IF year_end
                        THEN YearEndTax(rental_percentage, rental_sum, interest_sum, property_tax, other_expenses, annual_depreciation, current_date, start_date)
                        ELSE [yearly_tax_liability |-> yearly_tax_liability,
                              monthly_tax |-> MonthlyTaxEstimate(rental_percentage, rental_income, interest_payment, property_tax, other_expenses, annual_depreciation)]} :
       \E monthly_tax \in {year_tax.monthly_tax} :
       \E after_tax_rental_profit \in {AfterTaxRentalProfit(rental_income, interest_payment, rental_percentage, monthly_tax)} :
       \E reinvestable \in {Reinvestable(reinvest_excess, rental_income, interest_payment)} :
       \E new_excess \in {IF reinvestable
                          THEN ExcessForNextMonth(rental_income, interest_payment, regular_principal_payment)
                          ELSE carry} :
       \E excess_reinvested \in {IF reinvestable THEN new_excess ELSE 0} :
       \E new_balance \in {UpdateBalance(remaining_balance, principal_payment)} :
           /\ payment_num' = num
           /\ reinvested_total' = reinvested_total + reinvested_this_month
           /\ excess_for_next_month' = new_excess
           /\ yearly_rental_income' = IF year_end THEN 0 ELSE rental_sum
           /\ yearly_interest_paid' = IF year_end THEN 0 ELSE interest_sum
           /\ yearly_tax_liability' = year_tax.yearly_tax_liability
           /\ current_year' = IF year_end THEN next_date.year ELSE current_year
           /\ remaining_balance' = new_balance
           /\ schedule' = Append(schedule, Record(current_date, num, monthly_payment, principal_payment, regular_principal_payment, interest_payment, extra_payment, monthly_extra_income, excess_reinvested, new_balance, monthly_fee, rental_income, monthly_cost, monthly_tax, after_tax_rental_profit))
           \* Line 256: break; otherwise line 260, and the for loop ends at num_payments.
           /\ current_date' = IF Break(new_balance) THEN current_date ELSE next_date
           /\ pc' = IF Break(new_balance) \/ num = num_payments THEN "done" ELSE "loop"
    /\ UNCHANGED <<inputs, initial_monthly_payment, annual_depreciation, rt_args, rt_result, payment_call, parse_call, parked>>

Next == Step

Spec == Init /\ [][Next]_vars

\* ------------------------------------- calculate_rental_tax called directly

RentalTaxArguments ==
    [annual_rental_income : {0, Amt(6000), Amt(14400)},
     rental_percentage : {0, 50, 51, 60, 100},
     interest_paid : {0, Amt(400), Amt(20000)},
     property_tax : {0, Amt(200)},
     other_expenses : {0, Amt(300)},
     depreciation : {0, Amt(1400)}]

TaxInit ==
    /\ rt_args \in RentalTaxArguments
    /\ rt_result = NoCall
    /\ pc = "call"
    /\ principal = Amt(12000) /\ annual_rate = 6 /\ years = 1
    /\ monthly_fee = 0 /\ start_date = Date(2025, 8, 15)
    /\ rental_income = 0 /\ monthly_extra_income = 0
    /\ extra_payments = EmptyMap
    /\ reduce_term = TRUE /\ reinvest_excess = FALSE
    /\ rental_percentage = 0 /\ property_tax = 0 /\ other_expenses = 0
    /\ property_value = 0 /\ depreciation_percentage = 0
    /\ initial_monthly_payment = 0 /\ annual_depreciation = 0
    /\ schedule = <<>> /\ remaining_balance = 0 /\ current_date = start_date
    /\ excess_for_next_month = 0 /\ reinvested_total = 0
    /\ current_year = 0 /\ yearly_rental_income = 0
    /\ yearly_interest_paid = 0 /\ yearly_tax_liability = 0
    /\ payment_num = 0
    /\ NoPaymentCall /\ NoParseCall /\ NoSecondCall

CallRentalTax ==
    /\ pc = "call"
    /\ rt_result' = calculate_rental_tax(rt_args.annual_rental_income, rt_args.rental_percentage, rt_args.interest_paid, rt_args.property_tax, rt_args.other_expenses, rt_args.depreciation)
    /\ pc' = "returned"
    /\ UNCHANGED <<inputs, locals_but_pc, rt_args, payment_call, parse_call, parked>>

TaxNext == CallRentalTax

TaxSpec == TaxInit /\ [][TaxNext]_vars

\* -------------------------------- calculate_monthly_payment called directly

\* The locals of calculate_amortization_schedule while it is not called.
NoScheduleCall ==
    /\ principal = Amt(12000) /\ annual_rate = 6 /\ years = 1
    /\ monthly_fee = 0 /\ start_date = Date(2025, 8, 15)
    /\ rental_income = 0 /\ monthly_extra_income = 0
    /\ extra_payments = EmptyMap
    /\ reduce_term = TRUE /\ reinvest_excess = FALSE
    /\ rental_percentage = 0 /\ property_tax = 0 /\ other_expenses = 0
    /\ property_value = 0 /\ depreciation_percentage = 0
    /\ initial_monthly_payment = 0 /\ annual_depreciation = 0
    /\ schedule = <<>> /\ remaining_balance = 0 /\ current_date = start_date
    /\ excess_for_next_month = 0 /\ reinvested_total = 0
    /\ current_year = 0 /\ yearly_rental_income = 0
    /\ yearly_interest_paid = 0 /\ yearly_tax_liability = 0
    /\ payment_num = 0

PaymentYears == {-2, -1, 0, 1, 2}
PaymentArguments ==
    [principal : {Amt(12000), Amt(50000), Amt(100000)},
     annual_rate : {1, 6, 12, 24},
     years : PaymentYears]

PaymentInit ==
    /\ mp_args \in PaymentArguments
    /\ mp_result = NoCall
    /\ pc = "call_payment"
    /\ rt_args = NoCall /\ rt_result = NoCall
    /\ NoScheduleCall /\ NoParseCall /\ NoSecondCall

\* Line 22 divides by (1 + monthly_rate)**num_payments - 1: a float division
\* by 0.0 raises ZeroDivisionError.
ZeroDivision(annual_rate_, months) ==
    Pow(RATE_SCALE + MonthlyRate(annual_rate_), months) - RATE_SCALE = 0

\* The outcome of calculate_monthly_payment(principal_, annual_rate_, years_).
PaymentOutcome(principal_, annual_rate_, years_) ==
    IF ZeroDivision(annual_rate_, years_ * 12)
    THEN Raise("ZeroDivisionError")
    ELSE Return(calculate_monthly_payment(principal_, annual_rate_, years_ * 12))

CallMonthlyPayment ==
    /\ pc = "call_payment"
    /\ mp_result' = PaymentOutcome(mp_args.principal, mp_args.annual_rate, mp_args.years)
    /\ pc' = "returned"
    /\ UNCHANGED <<inputs, locals_but_pc, rt_args, rt_result, mp_args, parse_call, parked>>

PaymentNext == CallMonthlyPayment

PaymentSpec == PaymentInit /\ [][PaymentNext]_vars

\* --------------- calculate_amortization_schedule called with any parameters

\* What a caller can pass: the function checks none of it.
CallerPrincipals == {Amt(-12000), 0, Amt(12000)}
CallerRates == {0, 6, 101}
CallerTerms == {-1, 0, 1}

\* The locals before line 85 has run.
LocalsUnassigned ==
    /\ initial_monthly_payment = 0 /\ annual_depreciation = 0
    /\ schedule = <<>> /\ remaining_balance = 0 /\ current_date = start_date
    /\ excess_for_next_month = 0 /\ reinvested_total = 0
    /\ current_year = 0 /\ yearly_rental_income = 0
    /\ yearly_interest_paid = 0 /\ yearly_tax_liability = 0
    /\ payment_num = 0

CallInit ==
    /\ principal \in CallerPrincipals
    /\ annual_rate \in CallerRates
    /\ years \in CallerTerms
    /\ principal <= 0 \/ annual_rate <= 0 \/ annual_rate > 100 \/ years <= 0
    /\ monthly_fee = Amt(45)
    /\ start_date = Date(2025, 8, 15)
    /\ rental_income \in {0, Amt(500)}
    /\ monthly_extra_income \in {0, Amt(100)}
    /\ extra_payments \in {EmptyMap, (Date(2025, 8, 15) :> Amt(3000)) @@ (Date(2026, 1, 10) :> Amt(3000))}
    /\ reduce_term \in BOOLEAN
    /\ reinvest_excess = FALSE
    /\ rental_percentage = 0 /\ property_tax = 0 /\ other_expenses = 0
    /\ property_value = 0 /\ depreciation_percentage = 0
    /\ LocalsUnassigned
    /\ pc = "entry"
    /\ rt_args = NoCall /\ rt_result = NoCall
    /\ NoPaymentCall /\ NoParseCall /\ NoSecondCall

\* Lines 85-117: the call of calculate_monthly_payment at line 89 raises
\* ZeroDivisionError or gives the initial payment; the locals are set and the
\* loop over range(1, num_payments + 1) is entered, or skipped when the range
\* is empty.
Enter ==
    /\ pc = "entry"
    /\ IF ZeroDivision(annual_rate, years * 12)
       THEN /\ pc' = "raised"
            /\ UNCHANGED locals_but_pc
       ELSE /\ initial_monthly_payment' = calculate_monthly_payment(principal, annual_rate, years * 12)
            /\ annual_depreciation' = AnnualDepreciation(rental_percentage, property_value, depreciation_percentage)
            /\ schedule' = <<>>
            /\ remaining_balance' = principal
            /\ current_date' = start_date
            /\ excess_for_next_month' = 0
            /\ reinvested_total' = 0
            /\ current_year' = start_date.year
            /\ yearly_rental_income' = 0
            /\ yearly_interest_paid' = 0
            /\ yearly_tax_liability' = 0
            /\ payment_num' = 0
            /\ pc' = IF num_payments >= 1 THEN "loop" ELSE "done"
    /\ UNCHANGED <<inputs, rt_args, rt_result, payment_call, parse_call, parked>>

CallNext == Enter \/ Step

CallSpec == CallInit /\ [][CallNext]_vars

\* ----------------------------------------------------- process_extra_payments

\* A line of the text is a sequence of units: a well-formed date text, a
\* digit, a letter, a blank or a comma. The text is the sequence of its lines
\* (what split('\n') gives); the empty text is one empty line.
DateTexts == {"2025-09-15", "2025-9-15", "2025-10-15"}
Digits == {"0", "5"}
MaxLines == 2
Lines ==
    { <<"2025-09-15", ",", "5", "0">>,
      <<" ", "2025-10-15", " ", ",", " ", "5", " ">>,
      <<"2025-09-15", ",", "5">>,
      <<"2025-9-15", ",", "5", "5">>,
      <<>>,
      <<" ", " ">>,
      <<"2025-09-15", " ", "5">>,
      <<"2025-09-15", ",", "5", ",", "0">>,
      <<"x", ",", "5">>,
      <<"2025-09-15", ",", "x">>,
      <<"2025-09-15", ",">>,
      <<",", "5">>,
      <<"2025-09-15", "5", ",", "5">>,
      <<"2025-09-15", ",", "5", " ", "5">> }
Texts == UNION {[1..n -> Lines] : n \in 1..MaxLines}

\* str.strip()
RECURSIVE LStrip(_)
LStrip(t) == IF t # <<>> /\ Head(t) = " " THEN LStrip(Tail(t)) ELSE t
RECURSIVE RStrip(_)
RStrip(t) == IF t # <<>> /\ t[Len(t)] = " " THEN RStrip(SubSeq(t, 1, Len(t) - 1)) ELSE t
Strip(t) == RStrip(LStrip(t))

\* str.split(',')
RECURSIVE Split(_)
Split(t) ==
    IF \A i \in DOMAIN t : t[i] # ","
    THEN <<t>>
    ELSE LET c == CHOOSE i \in DOMAIN t : t[i] = "," /\ \A j \in 1..(i - 1) : t[j] # ","
         IN  <<SubSeq(t, 1, c - 1)>> \o Split(SubSeq(t, c + 1, Len(t)))

\* A ValueError and the text its message quotes.
RaiseQuoting(e, q) == [raised |-> e, quoted |-> q]

\* datetime.strptime(t, '%Y-%m-%d').date(): the date of a date text; text
\* after a date is "unconverted data", anything else "does not match".
DateOfText(d) == IF d \in {"2025-09-15", "2025-9-15"} THEN Date(2025, 9, 15) ELSE Date(2025, 10, 15)
Strptime(t) ==
    IF Len(t) = 1 /\ t[1] \in DateTexts THEN Return(DateOfText(t[1]))
    ELSE IF t # <<>> /\ t[1] \in DateTexts THEN RaiseQuoting("ValueError", Tail(t))
    ELSE RaiseQuoting("ValueError", t)

\* float(t): the value of a run of digits; anything else cannot be converted.
RECURSIVE DecimalValue(_)
DecimalValue(t) ==
    IF t = <<>> THEN 0
    ELSE 10 * DecimalValue(SubSeq(t, 1, Len(t) - 1)) + (IF t[Len(t)] = "5" THEN 5 ELSE 0)
Float(t) ==
    IF t # <<>> /\ \A i \in DOMAIN t : t[i] \in Digits
    THEN Return(Amt(DecimalValue(t)))
    ELSE RaiseQuoting("ValueError", t)

\* Mutant: an amount is added to the entry its date already has.
ParsedLine_Summed(map, payment) ==
    LET fields == Split(payment)
    IN  IF Len(fields) # 2
        THEN RaiseQuoting("ValueError", <<>>)
        ELSE LET payment_date == Strptime(Strip(fields[1]))
                 amount == Float(Strip(fields[2]))
             IN  IF "raised" \in DOMAIN payment_date THEN payment_date
                 ELSE IF "raised" \in DOMAIN amount THEN amount
                 ELSE Return([d \in DOMAIN map \cup {payment_date.returned} |->
                                 (IF d \in DOMAIN map THEN map[d] ELSE 0)
                                 + (IF d = payment_date.returned THEN amount.returned ELSE 0)])

\* Lines 30-32 for one non-blank line: the map with the line's entry, or the
\* error that ends the call.
ParsedLine(map, payment) ==
    LET fields == Split(payment)
    IN  IF Len(fields) # 2
        THEN RaiseQuoting("ValueError", <<>>)
        ELSE LET payment_date == Strptime(Strip(fields[1]))
                 amount == Float(Strip(fields[2]))
             IN  IF "raised" \in DOMAIN payment_date THEN payment_date
                 ELSE IF "raised" \in DOMAIN amount THEN amount
                 ELSE Return([d \in DOMAIN map \cup {payment_date.returned} |->
                                 IF d = payment_date.returned THEN amount.returned ELSE map[d]])

ParseInit ==
    /\ extra_payments_input \in Texts
    /\ line_num = 0
    /\ parsed_payments = EmptyMap
    /\ pe_result = NoCall
    /\ pc = "parse"
    /\ rt_args = NoCall /\ rt_result = NoCall
    /\ NoScheduleCall /\ NoPaymentCall /\ NoSecondCall

\* Line 27: an empty text is not looped over.
EmptyText(text) == text = <<<<>>>>

\* One iteration of the loop of lines 28-32.
ParseLine ==
    /\ pc = "parse"
    /\ ~EmptyText(extra_payments_input)
    /\ line_num < Len(extra_payments_input)
    /\ line_num' = line_num + 1
    /\ \E payment \in {extra_payments_input[line_num + 1]} :
          IF Strip(payment) = <<>>
          THEN UNCHANGED <<parsed_payments, pe_result, pc>>
          ELSE \E parsed \in {ParsedLine(parsed_payments, payment)} :
                  IF "raised" \in DOMAIN parsed
                  THEN /\ pe_result' = parsed
                       /\ pc' = "raised"
                       /\ UNCHANGED parsed_payments
                  ELSE /\ parsed_payments' = parsed.returned
                       /\ UNCHANGED <<pe_result, pc>>
    /\ UNCHANGED <<inputs, locals_but_pc, rt_args, rt_result, payment_call, extra_payments_input, parked>>

\* Line 33
ReturnPayments ==
    /\ pc = "parse"
    /\ EmptyText(extra_payments_input) \/ line_num = Len(extra_payments_input)
    /\ pe_result' = Return(parsed_payments)
    /\ pc' = "returned"
    /\ UNCHANGED <<inputs, locals_but_pc, rt_args, rt_result, payment_call, extra_payments_input, line_num, parsed_payments, parked>>

ParseNext == ParseLine \/ ReturnPayments

ParseSpec == ParseInit /\ [][ParseNext]_vars

\* ------------------------------ two calls of calculate_amortization_schedule

\* Two calls with equal arguments, run in any interleaving of their loop
\* iterations: one call runs, the other is parked with its locals. The
\* arguments are the same objects for both calls; the locals of lines 85-114
\* and of the loop body belong to the frame of each call.
Frame ==
    [initial_monthly_payment |-> initial_monthly_payment,
     annual_depreciation |-> annual_depreciation,
     schedule |-> schedule,
     remaining_balance |-> remaining_balance,
     current_date |-> current_date,
     excess_for_next_month |-> excess_for_next_month,
     reinvested_total |-> reinvested_total,
     current_year |-> current_year,
     yearly_rental_income |-> yearly_rental_income,
     yearly_interest_paid |-> yearly_interest_paid,
     yearly_tax_liability |-> yearly_tax_liability,
     payment_num |-> payment_num,
     pc |-> pc]

TwoCallsInit ==
    /\ rt_args = NoCall /\ rt_result = NoCall
    /\ NoPaymentCall /\ NoParseCall
    /\ principal \in Principals
    /\ annual_rate = 6
    /\ years \in Terms
    /\ monthly_fee \in MonthlyFees
    /\ start_date = Date(2025, 8, 15)
    /\ rental_income \in {0, Amt(1200)}
    /\ monthly_extra_income = 0
    /\ extra_payments \in {EmptyMap, (Date(2025, 10, 15) :> Amt(2000)) @@ (Date(2025, 11, 28) :> Amt(3000))}
    /\ reduce_term \in BOOLEAN
    /\ reinvest_excess \in BOOLEAN
    /\ rental_percentage = 60 /\ property_tax = Amt(200) /\ other_expenses = Amt(300)
    /\ property_value = Amt(100000) /\ depreciation_percentage = 2
    /\ initial_monthly_payment = calculate_monthly_payment(principal, annual_rate, years * 12)
    /\ annual_depreciation = AnnualDepreciation(rental_percentage, property_value, depreciation_percentage)
    /\ schedule = <<>>
    /\ remaining_balance = principal
    /\ current_date = start_date
    /\ excess_for_next_month = 0
    /\ reinvested_total = 0
    /\ current_year = start_date.year
    /\ yearly_rental_income = 0
    /\ yearly_interest_paid = 0
    /\ yearly_tax_liability = 0
    /\ payment_num = 0
    /\ pc = "loop"
    \* the second call has been entered too
    /\ parked = Frame

\* Mutant: the reinvestment carry is one variable shared by the calls.
Resume_SharedCarry(frame, running) ==
    [frame EXCEPT !.excess_for_next_month = running.excess_for_next_month]

\* The locals a call finds when it goes on: those of its own frame.
Resume(frame, running) == frame

\* The running call is parked and the parked one goes on.
Switch ==
    /\ parked # NoCall
    /\ \E frame \in {Resume(parked, Frame)} :
          /\ initial_monthly_payment' = frame.initial_monthly_payment
          /\ annual_depreciation' = frame.annual_depreciation
          /\ schedule' = frame.schedule
          /\ remaining_balance' = frame.remaining_balance
          /\ current_date' = frame.current_date
          /\ excess_for_next_month' = frame.excess_for_next_month
          /\ reinvested_total' = frame.reinvested_total
          /\ current_year' = frame.current_year
          /\ yearly_rental_income' = frame.yearly_rental_income
          /\ yearly_interest_paid' = frame.yearly_interest_paid
          /\ yearly_tax_liability' = frame.yearly_tax_liability
          /\ payment_num' = frame.payment_num
          /\ pc' = frame.pc
    /\ parked' = Frame
    /\ UNCHANGED <<inputs, rt_args, rt_result, payment_call, parse_call>>

TwoCallsNext == Step \/ Switch

TwoCallsSpec == TwoCallsInit /\ [][TwoCallsNext]_vars

\* ------------------------------------------------------------ properties

\* What is read off the schedule returned so far.
N == Len(schedule)
Last == schedule[N]
BalanceBefore(i) == IF i = 1 THEN principal ELSE schedule[i - 1].Remaining_Balance
\* The extras of record i: one-time and reinvested, plus the fixed monthly one.
ExtrasOf(i) == schedule[i].Extra_Payment + schedule[i].Monthly_Extra_Income
NoExtras == \A i \in 1..N : ExtrasOf(i) = 0
\* One hundredth of a currency unit: the tolerance of "up to rounding".
Tolerance == MONEY_SCALE \div 100
Near(a, b) == a - b <= Tolerance /\ b - a <= Tolerance

RECURSIVE SumSeq(_, _, _)
SumSeq(s, lo, hi) == IF lo > hi THEN 0 ELSE s[hi] + SumSeq(s, lo, hi - 1)

\* C1: Remaining_Balance never rises from one period to the next (starting
\* from the principal) and is never negative.
C1_BalanceNonIncreasing ==
    /\ remaining_balance >= 0
    /\ \A i \in 1..N :
          /\ schedule[i].Remaining_Balance >= 0
          /\ schedule[i].Remaining_Balance <= BalanceBefore(i)

\* C1 witness: a payoff period whose principal exceeded the balance owed (the
\* floor at zero acted) after periods that lowered the balance.
C1_Witness ==
    /\ pc = "done" /\ N >= 3
    /\ Last.Principal > BalanceBefore(N)
    /\ Last.Remaining_Balance = 0
    /\ schedule[2].Remaining_Balance < schedule[1].Remaining_Balance

\* C2 as stated: with reduce_term and no extras the schedule has exactly
\* term_years*12 records and the last one has Remaining_Balance exactly 0.
C2_FinalBalanceExactlyZero ==
    (pc = "done" /\ reduce_term /\ NoExtras) =>
        /\ N = num_payments
        /\ Last.Payment_Num = num_payments
        /\ Last.Remaining_Balance = 0

\* C2 amended: with reduce_term and no extras the schedule has exactly
\* term_years*12 records, no record follows the last one, and the last
\* Remaining_Balance is 0 up to rounding.
C2_FullTermWithinTolerance ==
    /\ N <= num_payments
    /\ (reduce_term /\ NoExtras) =>
          /\ pc = "loop" => N < num_payments
          /\ pc = "done" =>
                /\ N = num_payments
                /\ Last.Payment_Num = num_payments
                /\ Near(Last.Remaining_Balance, 0)
                /\ ~ENABLED Next

\* C2 witness: a finished schedule without extras under reduce_term.
C2_Witness ==
    pc = "done" /\ reduce_term /\ NoExtras /\ N = num_payments /\ rental_income > 0

\* C3: under reduce_term every record's Payment is the annuity payment of the
\* original principal, rate and term, whatever the extras; the extras only
\* shorten the schedule.
C3_PaymentFixedUnderReduceTerm ==
    reduce_term =>
        /\ \E nominal \in {calculate_monthly_payment(principal, annual_rate, years * 12)} :
              \A i \in 1..N : schedule[i].Payment = nominal
        /\ N <= num_payments

\* C3 witness: a schedule cut short by a one-time extra, a fixed monthly extra
\* and a reinvested surplus.
C3_Witness ==
    /\ pc = "done" /\ reduce_term /\ N < num_payments /\ N >= 3
    /\ \E i \in 1..N : schedule[i].Extra_Payment > 0 /\ schedule[i].Payment_Date \in DOMAIN extra_payments
    /\ monthly_extra_income > 0
    /\ reinvested_total > 0

C5_PaymentRecomputed ==
    [][~reduce_term =>
          /\ Len(schedule') = N + 1
          /\ \A h \in 1..N : schedule'[h] = schedule[h]
          /\ schedule'[N + 1].Payment = calculate_monthly_payment(BalanceBefore(N + 1), annual_rate, num_payments - (N + 1) + 1)
          /\ (N >= 1 /\ ExtrasOf(N) > 0) => schedule'[N + 1].Payment < schedule[N].Payment]_vars

\* C5 witness: a one-time extra in period 1 and a smaller payment in period 2.
C5_Witness ==
    /\ ~reduce_term /\ N >= 2
    /\ schedule[1].Extra_Payment > 0
    /\ schedule[2].Payment < schedule[1].Payment

\* C6: records are numbered 1..N with N <= term_years*12, every record but
\* the last has a positive balance, the loop is still running only while the
\* balance is positive and periods remain, and it has stopped at the first
\* record with balance 0 (or at the last period).
C6_StopsAtPayoff ==
    /\ N <= num_payments
    /\ \A i \in 1..N :
          /\ schedule[i].Payment_Num = i
          /\ i < N => schedule[i].Remaining_Balance > 0
    /\ pc = "loop" => /\ N < num_payments
                      /\ N > 0 => Last.Remaining_Balance > 0
    /\ pc = "done" => /\ N >= 1
                      /\ Last.Remaining_Balance = 0 \/ N = num_payments
                      /\ ~ENABLED Step

\* C6 witness: the loop stopped before the nominal term, at balance 0.
C6_Witness ==
    pc = "done" /\ N < num_payments /\ N >= 2 /\ Last.Remaining_Balance = 0

\* The surplus of record k as the specification gives it.
SurplusOf(k) ==
    IF reinvest_excess /\ schedule[k].Rental_Income > schedule[k].Interest
    THEN Max(0, (schedule[k].Rental_Income - schedule[k].Interest) - schedule[k].Regular_Principal)
    ELSE 0
\* The part of record k's Extra_Payment that is not the one-time payment of
\* its date.
ReinvestedIn(k) == schedule[k].Extra_Payment - ExtraPaymentOn(extra_payments, schedule[k].Payment_Date)

\* C7: the amount reinvested in period k+1 is exactly the surplus computed in
\* period k, nothing is reinvested in period 1 or in the period that computed
\* it, and each surplus is applied once (the carry is that of the last record
\* only).
C7_ReinvestmentLagsOnePeriod ==
    /\ \A k \in 1..N :
          /\ schedule[k].Excess_Reinvested = SurplusOf(k)
          /\ ReinvestedIn(k) = IF k = 1 THEN 0 ELSE SurplusOf(k - 1)
    /\ reinvested_total = SumSeq([k \in 1..N |-> ReinvestedIn(k)], 1, N)
    /\ (reinvest_excess /\ N > 0) => excess_for_next_month = SurplusOf(N)

\* C7 witness: two different surpluses, each applied in the next period.
C7_Witness ==
    /\ reinvest_excess /\ N >= 3
    /\ SurplusOf(1) > 0 /\ SurplusOf(2) > SurplusOf(1)
    /\ ReinvestedIn(2) = SurplusOf(1) /\ ReinvestedIn(3) = SurplusOf(2)

\* C8: with rental_percentage <= 50 every record has Monthly_Tax 0.
C8_NoTaxAtOrBelowHalf ==
    rental_percentage <= 50 => \A i \in 1..N : schedule[i].Monthly_Tax = 0

\* C8 witness: exactly 50 percent, with rental income, property tax, other
\* expenses and depreciation inputs, through a year end and a payoff.
C8_Witness ==
    /\ pc = "done" /\ rental_percentage = 50 /\ rental_income > 0
    /\ property_tax > 0 /\ other_expenses > 0 /\ property_value > 0
    /\ \E i \in 1..N : schedule[i].Payment_Date.month = 12 /\ i < N

\* The records of the calendar year of record j, up to j.
YearStart(j) == CHOOSE i \in 1..j :
    /\ schedule[i].Payment_Date.year = schedule[j].Payment_Date.year
    /\ \A h \in 1..(i - 1) : schedule[h].Payment_Date.year # schedule[j].Payment_Date.year
MonthsOf(j) == j - YearStart(j) + 1
YearRental(j) == SumSeq([i \in 1..N |-> schedule[i].Rental_Income], YearStart(j), j)
YearInterest(j) == SumSeq([i \in 1..N |-> schedule[i].Interest], YearStart(j), j)
YearTaxSum(j) == SumSeq([i \in 1..N |-> schedule[i].Monthly_Tax], YearStart(j), j)
\* The year's deductions: interest and property tax scaled by the rented
\* share, other expenses and depreciation in full, the annual inputs prorated
\* to the months of the year.
YearDeductions(j) ==
    MulDiv(YearInterest(j), rental_percentage, 100)
    + MulDiv(Div(property_tax * MonthsOf(j), 12), rental_percentage, 100)
    + Div(other_expenses * MonthsOf(j), 12)
    + Div(annual_depreciation, 12) * MonthsOf(j)
YearTax(j) == MulDiv(Max(0, YearRental(j) - YearDeductions(j)), 22, 100)
\* Record j is a year boundary: it closes a calendar year of the schedule.
ClosesYear(j) == schedule[j].Payment_Date.month = 12

\* C9 as stated: above 50 percent, the Monthly_Tax of a calendar year's
\* records adds up, at the year boundary, to
\* 0.22 * max(0, rental income - deductions) of that year, up to rounding.
C9_YearlyTaxSum ==
    rental_percentage > 50 =>
        \A j \in 1..N : ClosesYear(j) => Near(YearTaxSum(j), YearTax(j))

\* C9 amended: above 50 percent, the record that closes a calendar year
\* (month 12) carries the year's tax 0.22 * max(0, rental income - deductions)
\* divided by the number of that year's records; the other records carry
\* single-month estimates.
C9_YearEndRecordCarriesAnnualTax ==
    rental_percentage > 50 =>
        \A j \in 1..N :
            ClosesYear(j) => schedule[j].Monthly_Tax = Div(YearTax(j), MonthsOf(j))

\* C9 witness: a taxed December record that closes a year of five records.
C9_Witness ==
    /\ rental_percentage > 50 /\ property_tax > 0
    /\ \E j \in 1..N :
          /\ ClosesYear(j)
          /\ MonthsOf(j) = 5
          /\ schedule[j].Monthly_Tax > 0
          /\ j < N

\* C10: calculate_rental_tax returns zeros at or below 50 percent; above, the
\* deductions are interest and property tax scaled by the percentage plus
\* other expenses and depreciation in full, the taxable income is
\* max(0, rental income - deductions) and the tax is 22% of it, so the tax
\* is never negative and never above 22% of the rental income.
C10_RentalTax ==
    pc = "returned" =>
        /\ rt_args.rental_percentage <= 50 =>
              rt_result = [taxable_income |-> 0, income_tax |-> 0, effective_tax_rate |-> 0, deductions |-> 0]
        /\ rt_args.rental_percentage > 50 =>
              /\ rt_result.deductions =
                    MulDiv(rt_args.interest_paid, rt_args.rental_percentage, 100)
                    + MulDiv(rt_args.property_tax, rt_args.rental_percentage, 100)
                    + rt_args.other_expenses + rt_args.depreciation
              /\ rt_result.taxable_income = Max(0, rt_args.annual_rental_income - rt_result.deductions)
              /\ rt_result.income_tax = MulDiv(rt_result.taxable_income, 22, 100)
        /\ rt_result.income_tax >= 0
        /\ rt_result.income_tax <= MulDiv(rt_args.annual_rental_income, 22, 100)

\* C10 witness: a call above the threshold with every deduction present and a
\* positive tax.
C10_Witness ==
    /\ pc = "returned" /\ rt_args.rental_percentage = 60
    /\ rt_args.interest_paid > 0 /\ rt_args.property_tax > 0
    /\ rt_args.other_expenses > 0 /\ rt_args.depreciation > 0
    /\ rt_result.income_tax > 0

\* The reinvested carry applied in record k: the surplus recorded one period
\* earlier.
CarryInto(k) == IF k = 1 THEN 0 ELSE schedule[k - 1].Excess_Reinvested
\* The records dated exactly d.
RecordsDated(d) == {k \in 1..N : schedule[k].Payment_Date = d}

\* C11: the one-time part of a record's Extra_Payment is the map's amount for
\* exactly the record's date, and 0 when the map has no entry of that date; an
\* entry is applied in at most one record, an entry whose date is no record's
\* date is in no record, and the call is never ended by an error.
C11_ExtraAppliedOnExactDateOnly ==
    /\ \A k \in 1..N :
          schedule[k].Extra_Payment - CarryInto(k) =
              IF \E d \in DOMAIN extra_payments : d = schedule[k].Payment_Date
              THEN extra_payments[schedule[k].Payment_Date]
              ELSE 0
    /\ \A d \in DOMAIN extra_payments : Cardinality(RecordsDated(d)) <= 1
    /\ pc \in {"loop", "done"}

\* C11 witness: a finished schedule with one entry applied on its date and
\* another entry in the month of a record but on another day, applied nowhere.
C11_Witness ==
    /\ pc = "done"
    /\ \E d \in DOMAIN extra_payments : \E k \in 1..N :
          /\ schedule[k].Payment_Date = d
          /\ schedule[k].Extra_Payment = extra_payments[d]
    /\ \E d \in DOMAIN extra_payments : \E k \in 1..N :
          /\ schedule[k].Payment_Date.year = d.year
          /\ schedule[k].Payment_Date.month = d.month
          /\ schedule[k].Payment_Date.day # d.day
          /\ schedule[k].Extra_Payment = 0
          /\ RecordsDated(d) = {}

\* C12: every record's Monthly_Cost is
\* max(0, payment + fee - rental income - fixed monthly extra), so it is
\* never negative.
C12_MonthlyCostFloored ==
    \A k \in 1..N :
        /\ schedule[k].Monthly_Cost >= 0
        /\ schedule[k].Monthly_Cost =
              IF schedule[k].Payment + monthly_fee - rental_income - monthly_extra_income > 0
              THEN schedule[k].Payment + monthly_fee - rental_income - monthly_extra_income
              ELSE 0

\* C12 witness: rental income and the fixed extra together exceed payment
\* plus fee, and the cost is 0.
C12_Witness ==
    /\ N >= 2
    /\ rental_income + monthly_extra_income > Last.Payment + monthly_fee
    /\ monthly_extra_income > 0 /\ monthly_fee > 0
    /\ Last.Monthly_Cost = 0

\* Record j pays the loan off.
PaysOff(j) == schedule[j].Remaining_Balance = 0

\* C17: above 50 percent, every record that closes a calendar year or pays the
\* loan off carries the tax of the year so far (rental income and interest
\* accumulated since the last reset; property tax, other expenses and
\* depreciation prorated to the months recorded in that year) divided by the
\* number of months recorded in that year, also when the payoff is in the
\* start year before December; the accumulators are 0 afterwards.
C17_YearEndTaxOverElapsedMonths ==
    /\ rental_percentage > 50 =>
          \A j \in 1..N :
              (ClosesYear(j) \/ PaysOff(j)) =>
                  schedule[j].Monthly_Tax = Div(YearTax(j), MonthsOf(j))
    /\ (N >= 1 /\ (ClosesYear(N) \/ PaysOff(N))) =>
          yearly_rental_income = 0 /\ yearly_interest_paid = 0

\* The calendar of datetime.date.
LeapYear(y) == y % 4 = 0 /\ (y % 100 # 0 \/ y % 400 = 0)
DaysInMonth(y, m) ==
    IF m = 2 THEN (IF LeapYear(y) THEN 29 ELSE 28)
    ELSE IF m \in {4, 6, 9, 11} THEN 30 ELSE 31
ValidDate(d) ==
    /\ d.year \in 1..9999
    /\ d.month \in 1..12
    /\ d.day \in 1..DaysInMonth(d.year, d.month)
MonthIndex(d) == d.year * 12 + d.month

MapAmountOf(i) ==
    IF schedule[i].Payment_Date \in DOMAIN extra_payments
    THEN extra_payments[schedule[i].Payment_Date]
    ELSE 0

\* C19: in every record Interest is the balance before the period times the
\* monthly rate, Regular_Principal is Payment - Interest, Principal is
\* Regular_Principal + Extra_Payment + Monthly_Extra_Income, and
\* Extra_Payment is the map's amount for the record's date plus the carry
\* reinvested in that period.
C19_StepIdentities ==
    \E rate \in {MonthlyRate(annual_rate)} :
        \A i \in 1..N :
            /\ schedule[i].Interest = MulDiv(BalanceBefore(i), rate, RATE_SCALE)
            /\ schedule[i].Regular_Principal = schedule[i].Payment - schedule[i].Interest
            /\ schedule[i].Principal = schedule[i].Regular_Principal + schedule[i].Extra_Payment + schedule[i].Monthly_Extra_Income
            /\ schedule[i].Extra_Payment = MapAmountOf(i) + CarryInto(i)
            /\ schedule[i].Monthly_Extra_Income = monthly_extra_income

\* C19 witness: a record after the first with a map amount, a reinvested
\* carry and a fixed monthly extra, all positive.
C19_Witness ==
    \E i \in 2..N :
        /\ MapAmountOf(i) > 0 /\ CarryInto(i) > 0 /\ schedule[i].Monthly_Extra_Income > 0
        /\ schedule[i].Interest > 0 /\ schedule[i].Regular_Principal > 0
        /\ schedule[i].Remaining_Balance > 0

\* C20 as stated: every record's Remaining_Balance is the previous balance
\* minus the record's Principal, so the Principal of all records adds up to
\* the original principal minus the final Remaining_Balance.
C20_PrincipalConserved ==
    /\ \A i \in 1..N : schedule[i].Remaining_Balance = BalanceBefore(i) - schedule[i].Principal
    /\ N >= 1 => SumSeq([i \in 1..N |-> schedule[i].Principal], 1, N) = principal - Last.Remaining_Balance

\* C20 amended: every record's Remaining_Balance is
\* max(0, previous balance - Principal): the difference itself in a record
\* that leaves a balance, and 0 in the payoff record, whose Principal is at
\* least the balance still owed; so the Principal of all records adds up to
\* at least the original principal minus the final Remaining_Balance, and to
\* exactly that up to the last record.
C20_PrincipalConservedUpToPayoff ==
    /\ \A i \in 1..N :
          schedule[i].Remaining_Balance =
              IF schedule[i].Principal < BalanceBefore(i)
              THEN BalanceBefore(i) - schedule[i].Principal
              ELSE 0
    /\ N >= 1 =>
          /\ SumSeq([i \in 1..N |-> schedule[i].Principal], 1, N) >= principal - Last.Remaining_Balance
          /\ SumSeq([i \in 1..N |-> schedule[i].Principal], 1, N - 1) = principal - BalanceBefore(N)

\* C20 witness: a payoff record whose Principal exceeds the balance that was
\* still owed, after records that left a balance.
C20_Witness ==
    /\ pc = "done" /\ N >= 3
    /\ Last.Remaining_Balance = 0
    /\ Last.Principal > BalanceBefore(N)
    /\ BalanceBefore(N) > 0

\* C13: calculate_monthly_payment returns 0 whenever the number of periods
\* years * 12 is <= 0; it neither fails nor returns another value.
C13_NoPeriodsPaymentZero ==
    (pc = "returned" /\ mp_args.years * 12 <= 0) => mp_result = Return(0)

\* The parameters the specification calls invalid.
InvalidParameters ==
    principal <= 0 \/ years <= 0 \/ annual_rate <= 0 \/ annual_rate > 100

\* C14: with a non-positive principal, a non-positive term or a rate outside
\* 0 < r <= 100 the call is ended by a failure before the loop: it never
\* reaches the loop, emits no record and returns no schedule.
C14_InvalidParametersRejected ==
    InvalidParameters => (schedule = <<>> /\ pc \in {"entry", "raised"})

\* A line as the specification wants it: exactly one comma, a date text
\* before it and a run of digits after it, each between blanks only.
CommasOf(line) == {i \in DOMAIN line : line[i] = ","}
WellFormedLine(line) ==
    /\ Cardinality(CommasOf(line)) = 1
    /\ \E c \in CommasOf(line) :
          /\ \E i \in 1..(c - 1) :
                /\ line[i] \in DateTexts
                /\ \A j \in (1..(c - 1)) \ {i} : line[j] = " "
          /\ \E a \in (c + 1)..Len(line) : \E b \in a..Len(line) :
                /\ \A j \in a..b : line[j] \in Digits
                /\ \A j \in ((c + 1)..Len(line)) \ (a..b) : line[j] = " "
BlankLine(line) == \A i \in DOMAIN line : line[i] = " "
Malformed(line) == ~BlankLine(line) /\ ~WellFormedLine(line)
\* q is a non-empty piece of the line.
PieceOf(q, line) ==
    /\ q # <<>>
    /\ \E a \in 1..Len(line) :
          a + Len(q) - 1 <= Len(line) /\ SubSeq(line, a, a + Len(q) - 1) = q

\* C15: if any non-blank line of the text is malformed, the call ends in an
\* error that identifies the (first) offending line, here by quoting a piece
\* of it, and returns no map.
C15_MalformedLineRaisesNamingLine ==
    pc \in {"returned", "raised"} =>
        \A k \in DOMAIN extra_payments_input :
            (/\ Malformed(extra_payments_input[k])
             /\ \A h \in 1..(k - 1) : ~Malformed(extra_payments_input[h])) =>
                /\ pc = "raised"
                /\ "returned" \notin DOMAIN pe_result
                /\ "quoted" \in DOMAIN pe_result
                /\ PieceOf(pe_result.quoted, extra_payments_input[k])

TotalExcessRecorded == SumSeq([k \in 1..N |-> schedule[k].Excess_Reinvested], 1, N)

\* C21: when the call has ended, every surplus recorded in a record is added
\* to the extra payment of the next record, so that the total of the recorded
\* surpluses is the total added to extra payments by reinvestment; without
\* reinvest_excess no record carries a surplus.
C21_RecordedSurplusIsReinvested ==
    pc = "done" =>
        /\ \A k \in 1..N :
              schedule[k].Excess_Reinvested > 0 =>
                  /\ k < N
                  /\ schedule[k + 1].Extra_Payment =
                        ExtraPaymentOn(extra_payments, schedule[k + 1].Payment_Date) + schedule[k].Excess_Reinvested
        /\ TotalExcessRecorded = reinvested_total
        /\ ~reinvest_excess => \A k \in 1..N : schedule[k].Excess_Reinvested = 0

\* C22: in every period the payoff test of the tax reconciliation (balance
\* before the update minus the period's total principal <= 0) agrees with the
\* stop test (Remaining_Balance of the record is 0). The period reconciles
\* (its record carries the tax of the year so far over the code's months of
\* the year, and the yearly accumulators are reset) exactly when it is a
\* December period or its record has Remaining_Balance 0; any other period
\* carries the single-month estimate and keeps accumulating. The loop stops
\* exactly at a record with Remaining_Balance 0 or at the last period.
C22_PayoffTestAgreesWithStopTest ==
    [][\E rec \in {schedule'[N + 1]} :
       \E reconciles \in {rec.Payment_Date.month = 12 \/ rec.Remaining_Balance = 0} :
       \E rental_sum \in {yearly_rental_income + rental_income} :
       \E interest_sum \in {yearly_interest_paid + rec.Interest} :
          /\ (remaining_balance - rec.Principal <= 0) <=> (rec.Remaining_Balance = 0)
          /\ IF reconciles
             THEN /\ yearly_rental_income' = 0 /\ yearly_interest_paid' = 0
                  /\ rec.Monthly_Tax = YearEndTax(rental_percentage, rental_sum, interest_sum, property_tax, other_expenses, annual_depreciation, rec.Payment_Date, start_date).monthly_tax
             ELSE /\ yearly_rental_income' = rental_sum /\ yearly_interest_paid' = interest_sum
                  /\ rec.Monthly_Tax = MonthlyTaxEstimate(rental_percentage, rental_income, rec.Interest, property_tax, other_expenses, annual_depreciation)
          /\ (pc' = "done") <=> (rec.Remaining_Balance = 0 \/ rec.Payment_Num = num_payments)]_vars
\* C22 witness: a taxed loan paid off early, outside December; the last record
\* has Remaining_Balance 0, its tax is not the single-month estimate, and the
\* accumulators have been reset.
C22_Witness ==
    /\ pc = "done" /\ N >= 2 /\ N < num_payments
    /\ rental_percentage > 50
    /\ schedule[N].Remaining_Balance = 0
    /\ schedule[N].Payment_Date.month # 12
    /\ schedule[N].Monthly_Tax > 0
    /\ schedule[N].Monthly_Tax # MonthlyTaxEstimate(rental_percentage, rental_income, schedule[N].Interest, property_tax, other_expenses, annual_depreciation)
    /\ yearly_rental_income = 0 /\ yearly_interest_paid = 0

\* The date and the amount a well-formed line gives.
LineDate(line) == DateOfText(CHOOSE u \in {line[i] : i \in DOMAIN line} : u \in DateTexts)
LineAmount(line) == Amt(DecimalValue(SelectSeq(line, LAMBDA u : u \in Digits)))
NonBlankLines == {k \in DOMAIN extra_payments_input : ~BlankLine(extra_payments_input[k])}

\* C23: the map process_extra_payments returns has exactly one entry per
\* distinct date among the non-blank lines of the text (none for an empty or
\* all-blank text), and the entry of a date holds the amount of the last line
\* with that date: earlier amounts are overwritten, not summed.
C23_OneEntryPerDateLastWins ==
    pc = "returned" =>
        /\ "returned" \in DOMAIN pe_result
        /\ DOMAIN pe_result.returned = {LineDate(extra_payments_input[k]) : k \in NonBlankLines}
        /\ \A d \in DOMAIN pe_result.returned :
              \E k \in NonBlankLines :
                  /\ LineDate(extra_payments_input[k]) = d
                  /\ \A h \in NonBlankLines : LineDate(extra_payments_input[h]) = d => h <= k
                  /\ pe_result.returned[d] = LineAmount(extra_payments_input[k])
\* C23 witness: two lines give the same date, written differently, with
\* different amounts; the map returned has the one entry.
C23_Witness ==
    /\ pc = "returned"
    /\ Len(extra_payments_input) = 2
    /\ NonBlankLines = {1, 2}
    /\ extra_payments_input[1][1] # extra_payments_input[2][1]
    /\ LineDate(extra_payments_input[1]) = LineDate(extra_payments_input[2])
    /\ LineAmount(extra_payments_input[1]) # LineAmount(extra_payments_input[2])
    /\ Cardinality(DOMAIN pe_result.returned) = 1

====
